---- MODULE Spec2Model ----
(***************************************************************************)
(* HibiAPI resilience layer.                                               *)
(*                                                                         *)
(*   Retry              hibiapi/utils/decorators.py and                    *)
(*                      hibiapi/utils/decorators/__init__.py               *)
(*   rate_limit_depend  hibiapi/app/application.py                         *)
(*                                                                         *)
(* Each component has its own specification (SpecRetry, SpecLimit,         *)
(* SpecKey); the variables of the other components stay parked.            *)
(***************************************************************************)
EXTENDS Integers, Sequences, FiniteSets, TLC

(***************************************************************************)
(* Bounds of the model.                                                    *)
(***************************************************************************)
MaxRetries == 3
NumCallers == 2     \* concurrent requests in flight
MaxLimit == 2       \* largest RATE_LIMIT_MAX
MaxInterval == 2    \* largest RATE_LIMIT_INTERVAL, in seconds
MaxCount == 3       \* cap of a key's counter
NumTasks == 2       \* invocations running on one event loop
MaxParams == 2      \* entries of the mapping a caller passes to _sign
MaxBody == 3        \* characters of a response body
MaxClients == 3     \* registered network clients

VARIABLES
    \* ---- Retry ----
    source,        \* which definition of Retry is imported
    is_coroutine,  \* iscoroutinefunction(function)
    retries,       \* keyword argument retries
    delay,         \* keyword argument delay
    exceptions,    \* keyword argument exceptions (None is the empty set)
    wrapper,       \* what Retry(function) produced
    pc,            \* position inside sync_wrapper / async_wrapper
    retried,       \* loop variable of `for retried in range(retries)`
    error,         \* local `error` of decorators/__init__.py
    attempts,      \* outcome of every call of timed_func in this invocation
    sleeps,        \* number of sync_sleep / async_sleep calls in this invocation
    outcome,       \* how the invocation ended
    traces,        \* trace records emitted by TimeIt in this invocation
    \* ---- rate_limit_depend ----
    RATE_LIMIT_MAX,       \* Config["limit"]["max"]
    RATE_LIMIT_INTERVAL,  \* Config["limit"]["interval"]
    cache,         \* the shared store: key -> [count, ttl]
    req,           \* per caller: the rate_limit_depend call it is running
    window,        \* per key: the checks counted since the key was created
    lapsed,        \* per key: whether (and how) an earlier window ended
    \* ---- key derivation on its own ----
    client_host,   \* request.client.host
    derived,       \* the limit_key derived from it
    \* ---- concurrent invocations of one wrapper on one event loop ----
    tasks,         \* per invocation: position in the wrapper, loop variable
    thread,        \* the invocation the loop's thread is executing, 0 if none
    during,        \* per invocation: attempts of others begun and ended
                   \* within its current sleep
    \* ---- BaseBilibiliEndpoint._sign ----
    params,        \* the caller's dict: its entries in insertion order
    passed,        \* the entries the caller's dict had when it was passed
    now,           \* what time() returns
    url,           \* what _sign returned
    \* ---- BaseBilibiliEndpoint._parse_json ----
    content,       \* the response text: its characters
    parsed,        \* what _parse_json returned or raised
    \* ---- BaseBilibiliEndpoint.request ----
    signing,       \* keyword argument sign
    rpc,           \* position inside request
    sends,         \* network sends made by self.client.get
    response,      \* what self.client.get returned
    received,      \* the number of the send that produced the response
    answer,        \* what request returned or raised
    \* ---- fastapi_lifespan ----
    clients,       \* BaseNetClient.clients: is_closed and the state of aclose()
    lifespan,      \* position inside fastapi_lifespan
    cleanup,       \* position inside cleanup_clients
    sentry,        \* position inside flush_sentry
    opened_clients,  \* local of cleanup_clients
    closes         \* the aclose() calls that have ended, in the order they ended

retryVars == <<source, is_coroutine, retries, delay, exceptions, wrapper, pc,
               retried, error, attempts, sleeps, outcome, traces>>

limitVars == <<RATE_LIMIT_MAX, RATE_LIMIT_INTERVAL, cache, req, window, lapsed>>

keyVars == <<client_host, derived>>

taskVars == <<tasks, thread, during>>

signVars == <<params, passed, now, url>>

parseVars == <<content, parsed>>

requestVars == <<signing, rpc, sends, response, received, answer>>

shutdownVars == <<clients, lifespan, cleanup, sentry, opened_clients, closes>>

restVars == <<taskVars, signVars, parseVars, requestVars, shutdownVars>>

vars == <<retryVars, limitVars, keyVars, restVars>>

(***************************************************************************)
(* Retry                                                                   *)
(***************************************************************************)
Legacy == "decorators.py"
Package == "decorators/__init__.py"
Sources == {Legacy, Package}

\* Exception classes the wrapped function may raise; all derive from Exception.
ExceptionKinds == {"NetworkError", "ParseError"}
DelayValues == {-1, 0, 1}
None == [type |-> "None"]

\* asyncio.CancelledError derives from BaseException, not from Exception.
BaseExceptionKinds == {"CancelledError"}

\* IsException with CancelledError deriving from Exception.
IsException_All(kind) ==
    TRUE

\* issubclass(kind, Exception): what `except Exception` catches and what
\* isinstance(exception, (Exception,)) accepts.
IsException(kind) ==
    kind \in ExceptionKinds

\* tuple(exceptions or [Exception])
allowed_exceptions(excs) == IF excs = {} THEN {"Exception"} ELSE excs

\* isinstance(exception, allowed_exceptions) for classes deriving from Exception
isinstance(exception, allowed) ==
    \/ "Exception" \in allowed /\ IsException(exception.kind)
    \/ exception.kind \in allowed

\* Reraise without the allow-list test: every exception is retried.
Reraise_NoFilter(src, exception, n, i, excs) ==
    IF src = Legacy THEN (n - i) <= 0 ELSE FALSE

\* The condition of the bare `raise` inside the except clause.
\*   decorators.py:          (remain := retries - retried) <= 0 or not isinstance(...)
\*   decorators/__init__.py: not isinstance(...)
Reraise(src, exception, n, i, excs) ==
    IF src = Legacy
    THEN (n - i) <= 0 \/ ~isinstance(exception, allowed_exceptions(excs))
    ELSE ~isinstance(exception, allowed_exceptions(excs))

\* What follows the for loop once range(retries) is exhausted.
\*   decorators.py:          nothing, the wrapper returns None
\*   decorators/__init__.py: assert isinstance(error, Exception); raise error
AfterLoop(src, err) ==
    IF src = Legacy
    THEN [type |-> "return", value |-> None]
    ELSE IF err = None
         THEN [type |-> "raise", value |-> [kind |-> "AssertionError", attempt |-> 0]]
         ELSE [type |-> "raise", value |-> err]

\* TimeIt whose trace record is emitted after the call instead of in a
\* finally clause: nothing is emitted on the error path.
TimeIt_NoFinally(result) ==
    [result |-> result, emitted |-> IF result.type = "return" THEN 1 ELSE 0]

\* TimeIt(function)(...): the call's result or error passes through, and the
\* finally clause emits one trace record on either path.
TimeIt(result) ==
    [result |-> result, emitted |-> 1]

\* assertion that tests retries only.
assertion_RetriesOnly(n, d) ==
    n >= 1

\* assert (retries >= 1) and (delay >= 0)
assertion(n, d) ==
    (n >= 1) /\ (d >= 0)

\* Retry(function, retries=..., delay=..., exceptions=...): the assertion and
\* the choice of the wrapper.
Retry ==
    /\ wrapper = "unwrapped"
    /\ wrapper' = IF assertion(retries, delay)
                  THEN IF is_coroutine THEN "async_wrapper" ELSE "sync_wrapper"
                  ELSE "AssertionError"
    /\ UNCHANGED <<source, is_coroutine, retries, delay, exceptions, pc,
                   retried, error, attempts, sleeps, outcome, traces>>
    /\ UNCHANGED <<limitVars, keyVars, restVars>>

\* A caller invokes the wrapper: the loop starts with retried = 0.
Call ==
    /\ wrapper \in {"sync_wrapper", "async_wrapper"}
    /\ pc \in {"idle", "returned", "raised"}
    /\ pc' = "for"
    /\ retried' = 0
    /\ error' = None
    /\ attempts' = <<>>
    /\ sleeps' = 0
    /\ outcome' = None
    /\ traces' = 0
    /\ UNCHANGED <<source, is_coroutine, retries, delay, exceptions, wrapper>>
    /\ UNCHANGED <<limitVars, keyVars, restVars>>

\* try: return [await] timed_func(*args, **kwargs)   -- the call starts
StartAttempt ==
    /\ pc = "for"
    /\ pc' = "timed_func"
    /\ UNCHANGED <<source, is_coroutine, retries, delay, exceptions, wrapper,
                   retried, error, attempts, sleeps, outcome, traces>>
    /\ UNCHANGED <<limitVars, keyVars, restVars>>

\* timed_func returns: the wrapper returns its value.
AttemptReturns ==
    /\ pc = "timed_func"
    /\ LET timed == TimeIt([type |-> "return",
                            value |-> [type |-> "value",
                                       attempt |-> Len(attempts) + 1]]) IN
        /\ attempts' = Append(attempts, [kind |-> "ok"])
        /\ traces' = traces + timed.emitted
        /\ outcome' = timed.result
        /\ pc' = "returned"
    /\ UNCHANGED <<source, is_coroutine, retries, delay, exceptions, wrapper,
                   retried, error, sleeps>>
    /\ UNCHANGED <<limitVars, keyVars, restVars>>

\* What timed_func can raise: an exception of the wrapped function, or, at
\* the await of async_wrapper, the cancellation of the task.
RaisedKinds(w) ==
    ExceptionKinds \cup (IF w = "async_wrapper" THEN BaseExceptionKinds ELSE {})

\* timed_func raises: an exception that `except Exception` does not catch
\* leaves the wrapper; the except clause either re-raises or sleeps.
AttemptRaises ==
    /\ pc = "timed_func"
    /\ \E kind \in RaisedKinds(wrapper) :
        LET timed == TimeIt([type |-> "raise",
                             value |-> [kind |-> kind,
                                        attempt |-> Len(attempts) + 1]])
            exception == timed.result.value
        IN
        /\ attempts' = Append(attempts, [kind |-> kind])
        /\ traces' = traces + timed.emitted
        /\ IF ~IsException(exception.kind)
           THEN /\ error' = error
                /\ outcome' = timed.result
                /\ pc' = "raised"
                /\ sleeps' = sleeps
           ELSE /\ error' = IF source = Package THEN exception ELSE error
                /\ IF Reraise(source, exception, retries, retried, exceptions)
                   THEN /\ outcome' = timed.result
                        /\ pc' = "raised"
                        /\ sleeps' = sleeps
                   ELSE /\ outcome' = outcome
                        /\ pc' = "sleep"
                        /\ sleeps' = sleeps + 1
    /\ UNCHANGED <<source, is_coroutine, retries, delay, exceptions, wrapper,
                   retried>>
    /\ UNCHANGED <<limitVars, keyVars, restVars>>

\* The sleep ends: next iteration of the loop, or what follows the loop.
SleepReturns ==
    /\ pc = "sleep"
    /\ IF retried + 1 < retries
       THEN /\ retried' = retried + 1
            /\ pc' = "for"
            /\ outcome' = outcome
       ELSE /\ retried' = retried
            /\ outcome' = AfterLoop(source, error)
            /\ pc' = IF outcome'.type = "return" THEN "returned" ELSE "raised"
    /\ UNCHANGED <<source, is_coroutine, retries, delay, exceptions, wrapper,
                   error, attempts, sleeps, traces>>
    /\ UNCHANGED <<limitVars, keyVars, restVars>>

\* The task is cancelled during `await async_sleep(delay)`: CancelledError is
\* raised inside the except clause and leaves the wrapper.
SleepCancelled ==
    /\ pc = "sleep"
    /\ wrapper = "async_wrapper"
    /\ outcome' = [type |-> "raise",
                   value |-> [kind |-> "CancelledError", attempt |-> 0]]
    /\ pc' = "raised"
    /\ UNCHANGED <<source, is_coroutine, retries, delay, exceptions, wrapper,
                   retried, error, attempts, sleeps, traces>>
    /\ UNCHANGED <<limitVars, keyVars, restVars>>

RetryInit ==
    /\ source \in Sources
    /\ is_coroutine \in BOOLEAN
    /\ retries \in 0..MaxRetries
    /\ delay \in DelayValues
    /\ exceptions \in SUBSET ExceptionKinds
    /\ wrapper = "unwrapped"
    /\ pc = "idle"
    /\ retried = 0
    /\ error = None
    /\ attempts = <<>>
    /\ sleeps = 0
    /\ outcome = None
    /\ traces = 0

RetryNext ==
    \/ Retry
    \/ Call
    \/ StartAttempt
    \/ AttemptReturns
    \/ AttemptRaises
    \/ SleepReturns
    \/ SleepCancelled


\* ---- derived notions used by the properties ----
Finished == pc \in {"returned", "raised"}
Retryable(k) ==
    /\ attempts[k].kind # "ok"
    /\ isinstance(attempts[k], allowed_exceptions(exceptions))
NonRetryable(k) ==
    /\ attempts[k].kind # "ok"
    /\ ~isinstance(attempts[k], allowed_exceptions(exceptions))
Cancelled ==
    /\ outcome.type = "raise"
    /\ outcome.value.kind = "CancelledError"

(***************************************************************************)
(* The two wrappers as functions of the outcomes of the attempts.          *)
(* results[k] is what the k-th call of timed_func does; the value is the   *)
(* number of attempts, the number of sleeps and how the wrapper ends.      *)
(***************************************************************************)
Starved == [type |-> "starved", value |-> None]
Ended(made, slept, how) == [attempts |-> made, sleeps |-> slept, outcome |-> how]

\* The for loop of sync_wrapper.
RECURSIVE sync_for(_, _, _, _, _, _, _)
sync_for(src, results, n, excs, i, err, slept) ==
    IF i >= n THEN Ended(i, slept, AfterLoop(src, err))
    ELSE IF i + 1 > Len(results) THEN Ended(i, slept, Starved)
    ELSE IF results[i + 1].kind = "ok"
         THEN Ended(i + 1, slept,
                    [type |-> "return",
                     value |-> [type |-> "value", attempt |-> i + 1]])
         ELSE LET exception == [kind |-> results[i + 1].kind, attempt |-> i + 1] IN
              IF Reraise(src, exception, n, i, excs)
              THEN Ended(i + 1, slept, [type |-> "raise", value |-> exception])
              ELSE sync_for(src, results, n, excs, i + 1,
                            IF src = Package THEN exception ELSE err, slept + 1)

\* The for loop of async_wrapper.
RECURSIVE async_for(_, _, _, _, _, _, _)
async_for(src, results, n, excs, i, err, slept) ==
    IF i >= n THEN Ended(i, slept, AfterLoop(src, err))
    ELSE IF i + 1 > Len(results) THEN Ended(i, slept, Starved)
    ELSE IF results[i + 1].kind = "ok"
         THEN Ended(i + 1, slept,
                    [type |-> "return",
                     value |-> [type |-> "value", attempt |-> i + 1]])
         ELSE LET exception == [kind |-> results[i + 1].kind, attempt |-> i + 1] IN
              IF Reraise(src, exception, n, i, excs)
              THEN Ended(i + 1, slept, [type |-> "raise", value |-> exception])
              ELSE async_for(src, results, n, excs, i + 1,
                             IF src = Package THEN exception ELSE err, slept + 1)

sync_wrapper(src, results, n, excs) ==
    sync_for(src, results, n, excs, 0, None, 0)

\* async_wrapper looping over range(retries - 1).
async_wrapper_OneLess(src, results, n, excs) ==
    async_for(src, results, n - 1, excs, 0, None, 0)

async_wrapper(src, results, n, excs) ==
    async_for(src, results, n, excs, 0, None, 0)

\* return async_wrapper if iscoroutinefunction(function) else sync_wrapper
Chosen(coroutine) == IF coroutine THEN "async_wrapper" ELSE "sync_wrapper"

TypeOKRetry ==
    /\ pc \in {"idle", "for", "timed_func", "sleep", "returned", "raised"}
    /\ Len(attempts) <= MaxRetries
    /\ sleeps <= MaxRetries

(***************************************************************************)
(* rate_limit_depend: key derivation                                       *)
(*                                                                         *)
(* A host is the text of request.client.host, kept in its parsed shape:    *)
(* a dotted form with decimal parts, a colon form with eight 16-bit        *)
(* groups, or a name.                                                      *)
(***************************************************************************)
HexDigits == <<"0", "1", "2", "3", "4", "5", "6", "7",
               "8", "9", "a", "b", "c", "d", "e", "f">>

\* bytes.hex() of one byte: two lowercase hexadecimal digits
HexByte(b) == <<HexDigits[(b \div 16) + 1], HexDigits[(b % 16) + 1]>>

RECURSIVE HexBytes(_)
HexBytes(bs) ==
    IF bs = <<>> THEN <<>> ELSE HexByte(Head(bs)) \o HexBytes(Tail(bs))

RECURSIVE GroupBytes(_)
GroupBytes(gs) ==
    IF gs = <<>> THEN <<>>
    ELSE <<Head(gs) \div 256, Head(gs) % 256>> \o GroupBytes(Tail(gs))

\* ipaddress.ip_address(host): an IPv4Address, an IPv6Address or ValueError
ip_address(host) ==
    IF /\ host.form = "dotted"
       /\ Len(host.parts) = 4
       /\ \A i \in 1..4 : host.parts[i] \in 0..255
    THEN [raises |-> "", version |-> 4, packed |-> host.parts]
    ELSE IF /\ host.form = "colon"
            /\ Len(host.parts) = 8
            /\ \A i \in 1..8 : host.parts[i] \in 0..65535
         THEN [raises |-> "", version |-> 6, packed |-> GroupBytes(host.parts)]
         ELSE [raises |-> "ValueError", version |-> 0, packed |-> <<>>]

\* client_ip.packed.hex(): a str
packed_hex(client_ip) == [type |-> "str", text |-> HexBytes(client_ip.packed)]

\* format(value, "x"), as the replacement field {client_ip_hex:x} applies it:
\* the presentation type x is defined for int only, a str raises ValueError.
format_x(value) ==
    IF value.type = "int"
    THEN [raises |-> "", text |-> value.text]
    ELSE [raises |-> "ValueError", text |-> <<>>]

NoHost == [form |-> "", parts |-> <<>>, text |-> ""]

\* f"rate_limit:IPv{client_ip.version}-{client_ip_hex:x}"
IPvKey(version, hex) ==
    [prefix |-> "rate_limit:IPv", version |-> version, hex |-> hex,
     host |-> NoHost]

\* f"rate_limit:fallback-{request.client.host}"
FallbackKey(host) ==
    [prefix |-> "rate_limit:fallback-", version |-> 0, hex |-> <<>>,
     host |-> host]

\* The try / except ValueError block that computes limit_key.
limit_key(host) ==
    LET client_ip == ip_address(host) IN
    IF client_ip.raises = "ValueError"
    THEN FallbackKey(host)
    ELSE LET client_ip_hex == packed_hex(client_ip)
             formatted == format_x(client_ip_hex) IN
         IF formatted.raises = "ValueError"
         THEN FallbackKey(host)
         ELSE IPvKey(client_ip.version, formatted.text)

Dotted(parts) == [form |-> "dotted", parts |-> parts, text |-> ""]
Colon(parts) == [form |-> "colon", parts |-> parts, text |-> ""]
Name(text) == [form |-> "name", parts |-> <<>>, text |-> text]

Octets == {0, 10, 127, 255, 256}
Hosts ==
    {Dotted(<<a, b, c, d>>) : a \in {10, 127, 256}, b \in {0, 255},
                               c \in {0, 256}, d \in Octets}
    \cup {Dotted(<<a, b, c>>) : a \in {10, 127}, b \in {0}, c \in Octets}
    \cup {Colon(<<0, 0, 0, 0, 0, 0, 0, g>>) : g \in {0, 1, 65535, 65536}}
    \cup {Name("localhost"), Name("testclient")}

NoKey == [prefix |-> "", version |-> 0, hex |-> <<>>, host |-> NoHost]

\* A request arrives from a host and its key is derived.
DeriveKey ==
    /\ \E host \in Hosts :
        /\ client_host' = host
        /\ derived' = limit_key(host)
    /\ UNCHANGED <<retryVars, limitVars, restVars>>

KeyInit ==
    /\ client_host \in Hosts
    /\ derived = NoKey

KeyOff ==
    /\ client_host = Name("localhost")
    /\ derived = NoKey

(***************************************************************************)
(* rate_limit_depend: the shared store                                     *)
(*                                                                         *)
(* A key is a record [count, ttl]; count = 0 is an absent key, ttl =       *)
(* NoExpire a key without expiry.                                          *)
(***************************************************************************)
NoExpire == -1
Absent == [count |-> 0, ttl |-> NoExpire]

\* cache.incr(key): atomic increment, an absent key is created at 1
cache_incr(c, key) == [c EXCEPT ![key].count = @ + 1]

\* cache.expire(key, timeout): sets the expiry of an existing key
cache_expire(c, key, timeout) ==
    IF c[key].count = 0 THEN c ELSE [c EXCEPT ![key].ttl = timeout]

\* cache.get_expire(key): the remaining seconds; NoExpire for a key that has
\* no expiry or does not exist
cache_get_expire(c, key) == c[key].ttl

Callers == 1..NumCallers
\* The callers of the limiter model share one host, so that they contend on
\* one key.
LimitHosts == {Dotted(<<127, 0, 0, 1>>)}
Keys == {limit_key(h) : h \in LimitHosts}

\* A caller's call of rate_limit_depend: where it stands (pc), the key it
\* derived, the position of its check in the key's window (0: none, or the
\* window is gone) and the Retry-After value of its last denial.
Idle == [pc |-> "idle", limit_key |-> NoKey, slot |-> 0, limit_remain |-> NoExpire]
AtRest == {"idle", "allowed", "denied"}

\* Branch denying the request that reaches the limit (>= for >).
Branch_OffByOne(request_count, max) ==
    IF request_count <= 1 THEN "expire"
    ELSE IF request_count >= max THEN "get_expire"
    ELSE "return"

\* Branch setting the expiry for the second request too (<= 2 for <= 1).
Branch_ExpireTwice(request_count, max) ==
    IF request_count <= 2 THEN "expire"
    ELSE IF request_count > max THEN "get_expire"
    ELSE "return"

\* Branch setting the expiry again for a request over the limit.
Branch_RefreshWhenOver(request_count, max) ==
    IF request_count <= 1 \/ request_count > max THEN "expire" ELSE "return"

\* expire_timeout taking the other configuration value.
expire_timeout_Max(max, interval) ==
    max

\* The timeout argument of cache.expire: timeout=RATE_LIMIT_INTERVAL
expire_timeout(max, interval) ==
    interval

\* The if / elif after the increment.
Branch(request_count, max) ==
    IF request_count <= 1 THEN "expire"
    ELSE IF request_count > max THEN "get_expire"
    ELSE "return"

\* The record of a finished check in its key's window (slot 0: the window the
\* check was counted in is gone).
Logged(w, key, slot, result, remain, set) ==
    IF slot = 0 THEN w
    ELSE [w EXCEPT ![key][slot].result = result,
                   ![key][slot].limit_remain = remain,
                   ![key][slot].expire_set = set]

\* if not request.client: return
NoClient(p) ==
    /\ req[p].pc \in AtRest
    /\ req' = [req EXCEPT ![p] = [Idle EXCEPT !.pc = "allowed"]]
    /\ UNCHANGED <<RATE_LIMIT_MAX, RATE_LIMIT_INTERVAL, cache, window, lapsed>>
    /\ UNCHANGED <<retryVars, keyVars, restVars>>

\* The key derivation and request_count = await cache.incr(limit_key),
\* followed by the if / elif on request_count.
Incr(p) ==
    /\ req[p].pc \in AtRest
    /\ \E host \in LimitHosts :
        LET key == limit_key(host)
            request_count == cache_incr(cache, key)[key].count
            next == Branch(request_count, RATE_LIMIT_MAX)
        IN
        /\ cache[key].count < MaxCount
        /\ cache' = cache_incr(cache, key)
        /\ window' = [window EXCEPT ![key] = Append(@,
                        [request_count |-> request_count,
                         result |-> IF next = "return" THEN "allowed" ELSE "none",
                         limit_remain |-> NoExpire, expire_set |-> NoExpire])]
        /\ req' = [req EXCEPT ![p] =
                        IF next = "return"
                        THEN [Idle EXCEPT !.pc = "allowed"]
                        ELSE [pc |-> next, limit_key |-> key,
                              slot |-> Len(window[key]) + 1,
                              limit_remain |-> NoExpire]]
    /\ UNCHANGED <<RATE_LIMIT_MAX, RATE_LIMIT_INTERVAL, lapsed>>
    /\ UNCHANGED <<retryVars, keyVars, restVars>>

\* await cache.expire(limit_key, timeout=RATE_LIMIT_INTERVAL); return
Expire(p) ==
    /\ req[p].pc = "expire"
    /\ LET key == req[p].limit_key IN
        /\ cache' = cache_expire(cache, key,
                    expire_timeout(RATE_LIMIT_MAX, RATE_LIMIT_INTERVAL))
        /\ window' = Logged(window, key, req[p].slot, "allowed", NoExpire,
                            cache'[key].ttl)
        /\ req' = [req EXCEPT ![p] = [Idle EXCEPT !.pc = "allowed"]]
    /\ UNCHANGED <<RATE_LIMIT_MAX, RATE_LIMIT_INTERVAL, lapsed>>
    /\ UNCHANGED <<retryVars, keyVars, restVars>>

\* limit_remain = await cache.get_expire(limit_key)
\* raise RateLimitReachedException(headers={"Retry-After": limit_remain})
GetExpire(p) ==
    /\ req[p].pc = "get_expire"
    /\ LET key == req[p].limit_key
           limit_remain == cache_get_expire(cache, key)
       IN
        /\ window' = Logged(window, key, req[p].slot, "denied", limit_remain,
                            NoExpire)
        /\ req' = [req EXCEPT ![p] = [Idle EXCEPT !.pc = "denied",
                                                  !.limit_remain = limit_remain]]
    /\ UNCHANGED <<RATE_LIMIT_MAX, RATE_LIMIT_INTERVAL, cache, lapsed>>
    /\ UNCHANGED <<retryVars, keyVars, restVars>>

\* One second passes: every expiry comes one second closer, and the store
\* discards the keys whose expiry is reached.
Expires(c, key) == c[key].ttl = 1
Tick ==
    /\ \E key \in Keys : cache[key].ttl > 0
    /\ cache' = [key \in Keys |->
                    IF Expires(cache, key) THEN Absent
                    ELSE IF cache[key].ttl > 1
                         THEN [cache[key] EXCEPT !.ttl = @ - 1]
                         ELSE cache[key]]
    /\ window' = [key \in Keys |->
                    IF Expires(cache, key) THEN <<>> ELSE window[key]]
    /\ lapsed' = [key \in Keys |->
                    IF Expires(cache, key)
                    THEN IF \E i \in 1..Len(window[key]) :
                                window[key][i].result = "denied"
                         THEN "after_denials" ELSE "after_allowed"
                    ELSE lapsed[key]]
    /\ req' = [p \in Callers |->
                    IF req[p].limit_key \in Keys /\ Expires(cache, req[p].limit_key)
                    THEN [req[p] EXCEPT !.slot = 0]
                    ELSE req[p]]
    /\ UNCHANGED <<RATE_LIMIT_MAX, RATE_LIMIT_INTERVAL>>
    /\ UNCHANGED <<retryVars, keyVars, restVars>>

\* The call of caller p ends at the await it is suspended at, before the
\* store is called: the request's task is cancelled, or the call to the store
\* raises.  What the call did to the store before stays.
Abort(p) ==
    /\ req[p].pc \in {"expire", "get_expire"}
    /\ window' = Logged(window, req[p].limit_key, req[p].slot, "aborted",
                        NoExpire, NoExpire)
    /\ req' = [req EXCEPT ![p] = Idle]
    /\ UNCHANGED <<RATE_LIMIT_MAX, RATE_LIMIT_INTERVAL, cache, lapsed>>
    /\ UNCHANGED <<retryVars, keyVars, restVars>>

LimitIdle ==
    /\ cache = [key \in Keys |-> Absent]
    /\ req = [p \in Callers |-> Idle]
    /\ window = [key \in Keys |-> <<>>]
    /\ lapsed = [key \in Keys |-> "never"]

LimitInit ==
    /\ RATE_LIMIT_MAX \in 0..MaxLimit
    /\ RATE_LIMIT_INTERVAL \in 1..MaxInterval
    /\ LimitIdle

LimitOff ==
    /\ RATE_LIMIT_MAX = 1
    /\ RATE_LIMIT_INTERVAL = 1
    /\ LimitIdle

RetryOff ==
    /\ source = Package
    /\ is_coroutine = TRUE
    /\ retries = 1
    /\ delay = 0
    /\ exceptions = {}
    /\ wrapper = "unwrapped"
    /\ pc = "idle"
    /\ retried = 0
    /\ error = None
    /\ attempts = <<>>
    /\ sleeps = 0
    /\ outcome = None
    /\ traces = 0

LimitNext ==
    \/ \E p \in Callers : NoClient(p)
    \/ \E p \in Callers : Incr(p)
    \/ \E p \in Callers : Expire(p)
    \/ \E p \in Callers : GetExpire(p)
    \/ Tick

\* rate_limit_depend with calls that can be aborted.
AbortNext ==
    \/ \E p \in Callers : NoClient(p)
    \/ \E p \in Callers : Incr(p)
    \/ \E p \in Callers : Expire(p)
    \/ \E p \in Callers : GetExpire(p)
    \/ \E p \in Callers : Abort(p)
    \/ Tick

KeyNext == DeriveKey

(***************************************************************************)
(* Invocations of one Retry wrapper running concurrently on one event      *)
(* loop.  The loop has one thread: an invocation needs it to run code, and *)
(* gives it up where it awaits something that is not ready.                *)
(***************************************************************************)
Tasks == 1..NumTasks

\* Every sleep keeps the thread.
SleepBlocks_Always(w) ==
    TRUE

\* sync_sleep(delay) returns after the delay without giving up the thread;
\* await async_sleep(delay) suspends the invocation until the delay is over.
SleepBlocks(w) ==
    w = "sync_wrapper"

\* The thread is free for invocation t to run.
CanRun(t) == thread \in {0, t}

\* Invocations that are in a sleep now.
Sleeping == {t \in Tasks : tasks[t].pc = "sleep"}

\* Invocation t is scheduled and calls timed_func.
TaskStartAttempt(t) ==
    /\ tasks[t].pc = "for"
    /\ CanRun(t)
    /\ thread' = t
    /\ tasks' = [tasks EXCEPT ![t].pc = "timed_func",
                              ![t].within = Sleeping \ {t}]
    /\ during' = during
    /\ UNCHANGED <<retryVars, limitVars, keyVars, signVars, parseVars, requestVars, shutdownVars>>

\* The attempts that end now and began within the current sleep of s.
Credit(t, s) == IF s \in tasks[t].within /\ tasks[s].pc = "sleep" THEN 1 ELSE 0

\* timed_func returns in invocation t: the wrapper returns.
TaskAttemptReturns(t) ==
    /\ tasks[t].pc = "timed_func"
    /\ thread = t
    /\ thread' = 0
    /\ tasks' = [tasks EXCEPT ![t].pc = "returned", ![t].within = {}]
    /\ during' = [s \in Tasks |-> during[s] + Credit(t, s)]
    /\ UNCHANGED <<retryVars, limitVars, keyVars, signVars, parseVars, requestVars, shutdownVars>>

\* timed_func raises in invocation t: re-raise, or sleep the delay.
TaskAttemptRaises(t) ==
    /\ tasks[t].pc = "timed_func"
    /\ thread = t
    /\ \E kind \in ExceptionKinds :
        LET exception == [kind |-> kind, attempt |-> tasks[t].retried + 1] IN
        IF Reraise(source, exception, retries, tasks[t].retried, exceptions)
        THEN /\ tasks' = [tasks EXCEPT ![t].pc = "raised", ![t].within = {}]
             /\ thread' = 0
             /\ during' = [s \in Tasks |-> during[s] + Credit(t, s)]
        ELSE /\ tasks' = [tasks EXCEPT ![t].pc = "sleep", ![t].within = {}]
             /\ thread' = IF SleepBlocks(wrapper) THEN t ELSE 0
             /\ during' = [s \in Tasks |->
                              IF s = t THEN 0 ELSE during[s] + Credit(t, s)]
    /\ UNCHANGED <<retryVars, limitVars, keyVars, signVars, parseVars, requestVars, shutdownVars>>

\* The delay of invocation t is over and t runs again: next iteration of the
\* loop, or what follows the loop.
TaskSleepReturns(t) ==
    /\ tasks[t].pc = "sleep"
    /\ CanRun(t)
    /\ LET more == tasks[t].retried + 1 < retries IN
        /\ tasks' = [u \in Tasks |->
                        IF u = t
                        THEN [tasks[t] EXCEPT
                                !.pc = IF more THEN "for"
                                       ELSE IF source = Package THEN "raised"
                                       ELSE "returned",
                                !.retried = IF more THEN @ + 1 ELSE @]
                        ELSE [tasks[u] EXCEPT !.within = @ \ {t}]]
        /\ thread' = IF more /\ SleepBlocks(wrapper) THEN t ELSE 0
    /\ during' = [during EXCEPT ![t] = 0]
    /\ UNCHANGED <<retryVars, limitVars, keyVars, signVars, parseVars, requestVars, shutdownVars>>

TaskIdle ==
    /\ tasks = [t \in Tasks |-> [pc |-> "for", retried |-> 0, within |-> {}]]
    /\ thread = 0
    /\ during = [t \in Tasks |-> 0]

\* A valid configuration, wrapped: the invocations are about to start.
TaskInit ==
    /\ source \in Sources
    /\ is_coroutine \in BOOLEAN
    /\ retries \in 1..MaxRetries
    /\ delay = 1
    /\ exceptions \in {{}, {"NetworkError"}}
    /\ wrapper = Chosen(is_coroutine)
    /\ pc = "idle"
    /\ retried = 0
    /\ error = None
    /\ attempts = <<>>
    /\ sleeps = 0
    /\ outcome = None
    /\ traces = 0
    /\ TaskIdle

TaskOff == TaskIdle

TaskNext ==
    \/ \E t \in Tasks : TaskStartAttempt(t)
    \/ \E t \in Tasks : TaskAttemptReturns(t)
    \/ \E t \in Tasks : TaskAttemptRaises(t)
    \/ \E t \in Tasks : TaskSleepReturns(t)

(***************************************************************************)
(* BaseBilibiliEndpoint._sign.  A dict is the sequence of its entries in   *)
(* insertion order; keys and values are the text they have in a query.     *)
(***************************************************************************)

\* The keys that occur, in the order of Python's string comparison.
KeyOrder == <<"access_key", "aid", "appkey", "build", "page", "sign", "ts">>
rank(k) == CHOOSE i \in 1..Len(KeyOrder) : KeyOrder[i] = k

\* BilibiliConstants
DEFAULT_PARAMS == <<[k |-> "build", v |-> "507000"]>>
ACCESS_KEY == "ACCESS_KEY"
APP_KEY == "APP_KEY"
SECRET == "SECRET"
SERVER_HOST == [app |-> "https://app.bilibili.com"]

keys(d) == {d[i].k : i \in 1..Len(d)}
index(d, k) == CHOOSE i \in 1..Len(d) : d[i].k = k

\* d[k] = v: an existing key keeps its place, a new key goes last.
setitem(d, k, v) ==
    IF k \in keys(d)
    THEN [d EXCEPT ![index(d, k)].v = v]
    ELSE Append(d, [k |-> k, v |-> v])

\* d.update(other)
RECURSIVE update(_, _)
update(d, other) ==
    IF other = <<>> THEN d
    ELSE update(setitem(d, Head(other).k, Head(other).v), Tail(other))

\* The keys are left in insertion order.
sorted_Unsorted(ks, d) ==
    [i \in 1..Len(d) |-> d[i].k]

\* sorted(params.keys())
sorted(ks, d) ==
    LET ranks == {rank(k) : k \in ks}
        nth[i \in 1..Cardinality(ranks)] ==
            CHOOSE r \in ranks : Cardinality({q \in ranks : q < r}) = i - 1
    IN [i \in 1..Cardinality(ranks) |-> KeyOrder[nth[i]]]

\* {k: params[k] for k in sorted(params.keys())}
by_key(d) ==
    LET order == sorted(keys(d), d) IN
    [i \in 1..Len(order) |-> d[index(d, order[i])]]

\* Percent-encoding of a value in a query: a space becomes a plus sign, an
\* unreserved character stays.
quote_plus(v) == IF v = "a b" THEN "a+b" ELSE v

\* urlencode(params): k=v joined by & in the order of the dict.
urlencode(d) == [i \in 1..Len(d) |-> <<d[i].k, "=", quote_plus(d[i].v)>>]

\* self._join(base=..., endpoint=..., params=...)
join(base, endpoint, d) ==
    [base |-> base, endpoint |-> endpoint, query |-> urlencode(d)]

\* hashlib.md5(url.query + SECRET).hexdigest(): different data, different
\* digest.
md5(query, secret) == [md5 |-> [query |-> query, secret |-> secret]]
NoDigest == md5(<<>>, "")

\* URL(url, params=params) for a dict whose last entry is sign: the query is
\* replaced by the entries of the dict, in its order.
URL(u, d, digest) ==
    [base |-> u.base, endpoint |-> u.endpoint,
     query |-> urlencode(SubSeq(d, 1, Len(d) - 1)),
     last |-> d[Len(d)].k, sign |-> digest]

NoURL == [base |-> "", endpoint |-> "", query |-> <<>>, last |-> "",
          sign |-> NoDigest]

\* _sign(base, endpoint, params) at time t: what the dict passed in holds
\* afterwards, the signature and the URL returned.
sign(base, endpoint, d, t) ==
    LET updated == update(d, DEFAULT_PARAMS
                             \o <<[k |-> "access_key", v |-> ACCESS_KEY],
                                  [k |-> "appkey", v |-> APP_KEY],
                                  [k |-> "ts", v |-> t]>>)
        local == by_key(updated)
        joined == join(base, endpoint, local)
        digest == md5(joined.query, SECRET)
        signed == setitem(local, "sign", "hexdigest")
    IN [params |-> updated, url |-> URL(joined, signed, digest)]

CallerKeys == {"aid", "page", "ts"}
Values == {"1", "a b"}
Times == {"1700000000", "1700000001"}

\* The dicts a caller can pass: distinct keys, in any insertion order.
Dicts ==
    {d \in UNION {[1..n -> [k : CallerKeys, v : Values]] : n \in 0..MaxParams} :
        \A i, j \in 1..Len(d) : d[i].k = d[j].k => i = j}

\* The same entries in another insertion order.
Reordered(d) ==
    {e \in Dicts : Len(e) = Len(d) /\ {e[i] : i \in 1..Len(e)} = {d[i] : i \in 1..Len(d)}}

\* A caller calls _sign with its dict.
Sign ==
    /\ url = NoURL
    /\ LET result == sign(SERVER_HOST.app, "/x/endpoint", params, now) IN
        /\ params' = result.params
        /\ url' = result.url
    /\ UNCHANGED <<passed, now>>
    /\ UNCHANGED <<retryVars, limitVars, keyVars, taskVars, parseVars, requestVars, shutdownVars>>

SignInit ==
    /\ params \in Dicts
    /\ passed = params
    /\ now \in Times
    /\ url = NoURL

SignOff ==
    /\ params = <<>>
    /\ passed = <<>>
    /\ now = "1700000000"
    /\ url = NoURL

SignNext == Sign

(***************************************************************************)
(* BaseBilibiliEndpoint._parse_json.  A text is the sequence of its        *)
(* characters; the JSON documents over these characters are the numbers    *)
(* written with the digit 1, with white space around them.                 *)
(***************************************************************************)
Chars == {"1", "x", "(", ")", " "}

\* str.strip()
RECURSIVE lstrip(_)
lstrip(t) == IF t # <<>> /\ Head(t) = " " THEN lstrip(Tail(t)) ELSE t
RECURSIVE rstrip(_)
rstrip(t) ==
    IF t # <<>> /\ t[Len(t)] = " " THEN rstrip(SubSeq(t, 1, Len(t) - 1)) ELSE t
strip(t) == rstrip(lstrip(t))

JSONDecodeError == [type |-> "JSONDecodeError", text |-> <<>>]

\* json.loads(text): the value of the document, or JSONDecodeError.
json_loads(text) ==
    LET t == strip(text) IN
    IF t # <<>> /\ \A i \in 1..Len(t) : t[i] = "1"
    THEN [type |-> "value", text |-> t]
    ELSE JSONDecodeError

\* str.find / str.rfind of one character: index from 0, -1 if absent.
find(t, c) ==
    IF \E i \in 1..Len(t) : t[i] = c
    THEN (CHOOSE i \in 1..Len(t) : t[i] = c /\ \A j \in 1..(i - 1) : t[j] # c) - 1
    ELSE -1
rfind(t, c) ==
    IF \E i \in 1..Len(t) : t[i] = c
    THEN (CHOOSE i \in 1..Len(t) : t[i] = c /\ \A j \in (i + 1)..Len(t) : t[j] # c) - 1
    ELSE -1

\* t[start:stop] for start >= 0: a negative stop counts from the end.
slice(t, start, stop) ==
    LET to == IF stop < 0 THEN (IF stop + Len(t) < 0 THEN 0 ELSE stop + Len(t))
              ELSE IF stop > Len(t) THEN Len(t) ELSE stop
    IN SubSeq(t, start + 1, to)

\* The except clause of _parse_json.
fallback(t) ==
    LET right == find(t, "(")
        left == rfind(t, ")")
    IN json_loads(strip(slice(t, right + 1, left)))

parse_json(t) ==
    IF json_loads(t) # JSONDecodeError THEN json_loads(t) ELSE fallback(t)

Bodies == UNION {[1..n -> Chars] : n \in 0..MaxBody}

NotParsed == [type |-> "None", text |-> <<>>]

\* _parse_json(content) is called.
ParseJson ==
    /\ parsed = NotParsed
    /\ parsed' = parse_json(content)
    /\ content' = content
    /\ UNCHANGED <<retryVars, limitVars, keyVars, taskVars, signVars, requestVars, shutdownVars>>

ParseInit ==
    /\ content \in Bodies
    /\ parsed = NotParsed

ParseOff ==
    /\ content = <<>>
    /\ parsed = NotParsed

ParseNext == ParseJson

\* A text of the form name(B): its first ( comes before its last ).
Enveloped(t) ==
    \E i, j \in 1..Len(t) :
        /\ i < j
        /\ t[i] = "(" /\ \A m \in 1..(i - 1) : t[m] # "("
        /\ t[j] = ")" /\ \A m \in (j + 1)..Len(t) : t[m] # ")"

\* The text between the first ( and the last ) of an enveloped text.
Between(t) ==
    LET i == CHOOSE i \in 1..Len(t) : t[i] = "(" /\ \A m \in 1..(i - 1) : t[m] # "("
        j == CHOOSE j \in 1..Len(t) : t[j] = ")" /\ \A m \in (j + 1)..Len(t) : t[m] # ")"
    IN SubSeq(t, i + 1, j - 1)

(***************************************************************************)
(* BaseBilibiliEndpoint.request.  self.client.get is the network send      *)
(* wrapped in Retry: a transport error is retried, a response of any       *)
(* status is what the send returns.                                        *)
(***************************************************************************)
ClientRetries == MaxRetries

Statuses == {200, 500}
ResponseBodies == {<<"1">>, <<"x", "(", "1", ")">>, <<"x">>}
Responses == [status_code : Statuses, text : ResponseBodies]
NoResponse == [status_code |-> 0, text |-> <<>>]

NoResult == [type |-> "None", kind |-> "", cause |-> "", value |-> NotParsed]
Returned(value) ==
    [type |-> "return", kind |-> "", cause |-> "", value |-> value]

\* catch_network_error: an error of the HTTP client is raised as the
\* upstream failure, any other error passes.
catch_network_error(kind) ==
    [type |-> "raise",
     kind |-> IF kind \in {"TransportError", "HTTPStatusError"}
              THEN "UpstreamAPIException" ELSE kind,
     cause |-> kind, value |-> NotParsed]

\* response.is_success
is_success(r) == r.status_code \div 100 = 2

\* self._join(...) as request uses it: a URL without a signature.
Unsigned(u) ==
    [base |-> u.base, endpoint |-> u.endpoint, query |-> u.query,
     last |-> "", sign |-> NoDigest]

\* request(endpoint, sign=..., params=...) up to the await: the URL is built
\* on `params or {}`, which is the caller's dict unless that is empty.
RequestCall ==
    /\ rpc = "idle"
    /\ IF signing
       THEN LET built == sign(SERVER_HOST.app, "/x/endpoint", params, now) IN
            /\ url' = built.url
            /\ params' = IF params = <<>> THEN params ELSE built.params
       ELSE /\ url' = Unsigned(join(SERVER_HOST.app, "/x/endpoint", params))
            /\ params' = params
    /\ rpc' = "get"
    /\ sends' = 0
    /\ UNCHANGED <<passed, now, signing, response, received, answer>>
    /\ UNCHANGED <<retryVars, limitVars, keyVars, taskVars, parseVars, shutdownVars>>

\* A send inside self.client.get fails with a transport error: it is sent
\* again, or the error leaves request after the last attempt.
SendFails ==
    /\ rpc = "get"
    /\ sends' = sends + 1
    /\ IF sends + 1 < ClientRetries
       THEN /\ rpc' = "get"
            /\ answer' = answer
       ELSE /\ rpc' = "raised"
            /\ answer' = catch_network_error("TransportError")
    /\ UNCHANGED <<signing, response, received>>
    /\ UNCHANGED <<retryVars, limitVars, keyVars, taskVars, signVars, parseVars, shutdownVars>>

\* response.raise_for_status(), after self.client.get has returned: whether
\* it raises.
raise_for_status(r) ==
    ~is_success(r)

\* A send is answered: self.client.get returns the response, and request
\* goes on to the status check and to _parse_json.
SendReplies ==
    /\ rpc = "get"
    /\ \E r \in Responses :
        /\ sends' = sends + 1
        /\ received' = sends + 1
        /\ response' = r
        /\ IF raise_for_status(r)
           THEN answer' = catch_network_error("HTTPStatusError")
           ELSE IF parse_json(r.text) = JSONDecodeError
           THEN answer' = catch_network_error("JSONDecodeError")
           ELSE answer' = Returned(parse_json(r.text))
        /\ rpc' = IF answer'.type = "return" THEN "returned" ELSE "raised"
    /\ signing' = signing
    /\ UNCHANGED <<retryVars, limitVars, keyVars, taskVars, signVars, parseVars, shutdownVars>>

RequestIdle ==
    /\ rpc = "idle"
    /\ sends = 0
    /\ response = NoResponse
    /\ received = 0
    /\ answer = NoResult

RequestInit ==
    /\ signing \in BOOLEAN
    /\ RequestIdle

RequestOff ==
    /\ signing = TRUE
    /\ RequestIdle

RequestNext ==
    \/ RequestCall
    \/ SendFails
    \/ SendReplies

(***************************************************************************)
(* fastapi_lifespan after its yield: cleanup_clients and flush_sentry run  *)
(* as two tasks of one gather, and cleanup_clients gathers one aclose()    *)
(* per client that is open.                                                *)
(***************************************************************************)
Registries ==
    UNION {[1..n -> [is_closed : BOOLEAN, aclose : {"none"}]] : n \in 0..MaxClients}

\* gather(..., return_exceptions=False) is done when a call has raised or
\* all have returned.
gather_FirstError(cs) ==
    \/ \E c \in cs : clients[c].aclose = "raised"
    \/ \A c \in cs : clients[c].aclose = "returned"

\* asyncio.gather(*..., return_exceptions=True) is done when every call has
\* returned or raised.
gather(cs) ==
    \A c \in cs : clients[c].aclose \in {"returned", "raised"}

\* The application shuts down: the code after the yield starts the two
\* coroutines of the outer gather.
LifespanExit ==
    /\ lifespan = "yield"
    /\ lifespan' = "gather"
    /\ cleanup' = "start"
    /\ sentry' = "start"
    /\ UNCHANGED <<clients, opened_clients, closes>>
    /\ UNCHANGED <<retryVars, limitVars, keyVars, taskVars, signVars, parseVars,
                   requestVars>>

\* cleanup_clients up to its await: the open clients are collected and, if
\* there is one, an aclose() is started on each; with none it returns.
CleanupClients ==
    /\ cleanup = "start"
    /\ LET opened == {c \in DOMAIN clients : ~clients[c].is_closed} IN
        /\ opened_clients' = opened
        /\ clients' = [c \in DOMAIN clients |->
                          IF c \in opened
                          THEN [clients[c] EXCEPT !.aclose = "running"]
                          ELSE clients[c]]
        /\ cleanup' = IF opened # {} THEN "gather" ELSE "done"
    /\ UNCHANGED <<lifespan, sentry, closes>>
    /\ UNCHANGED <<retryVars, limitVars, keyVars, taskVars, signVars, parseVars,
                   requestVars>>

\* client.aclose() returns: the client is closed.
AcloseReturns(c) ==
    /\ clients[c].aclose = "running"
    /\ clients' = [clients EXCEPT ![c].aclose = "returned", ![c].is_closed = TRUE]
    /\ closes' = Append(closes, [client |-> c, how |-> "returned"])
    /\ UNCHANGED <<lifespan, cleanup, sentry, opened_clients>>
    /\ UNCHANGED <<retryVars, limitVars, keyVars, taskVars, signVars, parseVars,
                   requestVars>>

\* client.aclose() raises.
AcloseRaises(c) ==
    /\ clients[c].aclose = "running"
    /\ clients' = [clients EXCEPT ![c].aclose = "raised"]
    /\ closes' = Append(closes, [client |-> c, how |-> "raised"])
    /\ UNCHANGED <<lifespan, cleanup, sentry, opened_clients>>
    /\ UNCHANGED <<retryVars, limitVars, keyVars, taskVars, signVars, parseVars,
                   requestVars>>

\* The gather inside cleanup_clients is done: cleanup_clients logs and
\* returns.
CleanupDone ==
    /\ cleanup = "gather"
    /\ gather(opened_clients)
    /\ cleanup' = "done"
    /\ UNCHANGED <<clients, lifespan, sentry, opened_clients, closes>>
    /\ UNCHANGED <<retryVars, limitVars, keyVars, taskVars, signVars, parseVars,
                   requestVars>>

\* flush_sentry runs: it has no await.
FlushSentry ==
    /\ sentry = "start"
    /\ sentry' = "done"
    /\ UNCHANGED <<clients, lifespan, cleanup, opened_clients, closes>>
    /\ UNCHANGED <<retryVars, limitVars, keyVars, taskVars, signVars, parseVars,
                   requestVars>>

\* The outer gather is done: fastapi_lifespan ends.
LifespanDone ==
    /\ lifespan = "gather"
    /\ cleanup = "done"
    /\ sentry = "done"
    /\ lifespan' = "done"
    /\ UNCHANGED <<clients, cleanup, sentry, opened_clients, closes>>
    /\ UNCHANGED <<retryVars, limitVars, keyVars, taskVars, signVars, parseVars,
                   requestVars>>

ShutdownIdle ==
    /\ lifespan = "yield"
    /\ cleanup = "idle"
    /\ sentry = "idle"
    /\ opened_clients = {}
    /\ closes = <<>>

ShutdownInit ==
    /\ clients \in Registries
    /\ ShutdownIdle

ShutdownOff ==
    /\ clients = <<>>
    /\ ShutdownIdle

ShutdownNext ==
    \/ LifespanExit
    \/ CleanupClients
    \/ \E c \in DOMAIN clients : AcloseReturns(c)
    \/ \E c \in DOMAIN clients : AcloseRaises(c)
    \/ CleanupDone
    \/ FlushSentry
    \/ LifespanDone

\* The clients that were open when the application shut down: those that
\* are open still and those an aclose() was called on.
OpenAtShutdown ==
    {c \in DOMAIN clients : ~clients[c].is_closed \/ clients[c].aclose # "none"}

RestOff == TaskOff /\ SignOff /\ ParseOff /\ RequestOff /\ ShutdownOff

InitRetry == RetryInit /\ LimitOff /\ KeyOff /\ RestOff
InitLimit == RetryOff /\ LimitInit /\ KeyOff /\ RestOff
InitKey == RetryOff /\ LimitOff /\ KeyInit /\ RestOff
Parked == RetryOff /\ LimitOff /\ KeyOff
InitTasks ==
    TaskInit /\ LimitOff /\ KeyOff /\ SignOff /\ ParseOff /\ RequestOff /\ ShutdownOff
InitSign ==
    Parked /\ TaskOff /\ SignInit /\ ParseOff /\ RequestOff /\ ShutdownOff
InitParse ==
    Parked /\ TaskOff /\ SignOff /\ ParseInit /\ RequestOff /\ ShutdownOff
InitRequest ==
    Parked /\ TaskOff /\ SignInit /\ ParseOff /\ RequestInit /\ ShutdownOff
InitShutdown ==
    Parked /\ TaskOff /\ SignOff /\ ParseOff /\ RequestOff /\ ShutdownInit

SpecRetry == InitRetry /\ [][RetryNext]_vars

SpecLimit == InitLimit /\ [][LimitNext]_vars

SpecKey == InitKey /\ [][KeyNext]_vars

SpecAbort == InitLimit /\ [][AbortNext]_vars

SpecTasks == InitTasks /\ [][TaskNext]_vars

SpecSign == InitSign /\ [][SignNext]_vars

SpecParse == InitParse /\ [][ParseNext]_vars

SpecRequest == InitRequest /\ [][RequestNext]_vars

SpecShutdown == InitShutdown /\ [][ShutdownNext]_vars

(***************************************************************************)
(* The expiry of a key over the steps of rate_limit_depend                 *)
(***************************************************************************)

\* Caller p is the check that observed the count 1 on the key and is at its
\* cache.expire call.
FirstCheckAtExpire(p, key) ==
    /\ req[p].pc = "expire"
    /\ req[p].limit_key = key
    /\ req[p].slot >= 1
    /\ window[key][req[p].slot].request_count = 1

\* C23: the expiry of a key changes only when a second passes (it comes one
\* second closer, or the key is discarded) or when the check that observed
\* the count 1 sets it, from none to RATE_LIMIT_INTERVAL; a step that counts
\* a check beyond the first leaves it as it is.  So the expiry is set once per
\* window and is never moved back by later checks, allowed or denied.
C23_LaterChecksLeaveExpiry ==
    [][\A key \in Keys :
        /\ cache'[key].ttl # cache[key].ttl =>
                \/ /\ cache[key].ttl > 0
                   /\ \/ cache'[key] = Absent
                      \/ cache'[key].ttl = cache[key].ttl - 1
                   /\ cache'[key].count \in {0, cache[key].count}
                \/ /\ \E p \in Callers :
                        FirstCheckAtExpire(p, key) /\ req'[p].pc = "allowed"
                   /\ cache[key].ttl = NoExpire
                   /\ cache'[key].ttl = RATE_LIMIT_INTERVAL
                   /\ cache'[key].count = cache[key].count
        /\ (cache'[key].count > cache[key].count /\ cache'[key].count > 1) =>
                cache'[key].ttl = cache[key].ttl]_vars

\* C23 witness: a check was denied one second into a window of two seconds,
\* and the key still expires one second from now.
C23_Witness ==
    \E key \in Keys :
        /\ RATE_LIMIT_INTERVAL = 2
        /\ cache[key].ttl = 1
        /\ \E j \in 2..Len(window[key]) :
            /\ window[key][j].result = "denied"
            /\ window[key][j].limit_remain = 1

(***************************************************************************)
(* Properties of rate_limit_depend under aborted calls                     *)
(***************************************************************************)

\* No call of rate_limit_depend is between two of its awaits.
Quiet == \A p \in Callers : req[p].pc \in AtRest

\* C22: when no call is in progress, a key that is in the store has an
\* expiry, so the store discards it at the latest RATE_LIMIT_INTERVAL
\* seconds later; this also after calls that were aborted between their
\* increment and their expiry call.
C22_NoKeyLeftWithoutExpiry ==
    Quiet =>
        \A key \in Keys :
            cache[key].count > 0 => cache[key].ttl \in 1..RATE_LIMIT_INTERVAL

(***************************************************************************)
(* Properties of concurrent invocations                                    *)
(***************************************************************************)

\* C13: under async dispatch an invocation that is sleeping its retry delay
\* does not hold the thread of the event loop, so the thread is free or runs
\* another invocation, and every other invocation that is ready can run.
C13_AsyncSleepBlocksOnlyItself ==
    wrapper = "async_wrapper" =>
        \A a \in Tasks :
            tasks[a].pc = "sleep" =>
                /\ thread # a
                /\ thread = 0 => \A b \in Tasks \ {a} : CanRun(b)

\* C13 witness: within one sleep of an async invocation another invocation
\* began and ended two attempts.
C13_Witness ==
    /\ wrapper = "async_wrapper"
    /\ \E a \in Tasks :
        /\ tasks[a].pc = "sleep"
        /\ during[a] >= 2

(***************************************************************************)
(* Properties of _sign                                                     *)
(***************************************************************************)

\* C14: the signature and the signed URL that _sign returned for a dict are
\* what _sign returns, at the same time, for the same entries in every other
\* insertion order.
C14_SignatureOrderIndependent ==
    url # NoURL =>
        \A d \in Reordered(passed) :
            LET again == sign(SERVER_HOST.app, "/x/endpoint", d, now).url IN
            /\ again.sign = url.sign
            /\ again = url

\* C14 witness: _sign has signed a dict of two entries that were inserted
\* against the order of their keys.
C14_Witness ==
    /\ url # NoURL
    /\ Len(passed) = 2
    /\ rank(passed[1].k) > rank(passed[2].k)
    /\ Cardinality(Reordered(passed)) = 2

\* C15: after _sign the caller's dict holds exactly the entries it held when
\* it was passed.
C15_CallerMappingUnchanged ==
    url # NoURL => params = passed

(***************************************************************************)
(* Properties of _parse_json                                               *)
(***************************************************************************)

\* C16: a body that is JSON gives its value; a body of the form name(B) that
\* is not JSON gives what the text between its first ( and its last ) gives;
\* a body that is neither raises the parse error.
C16_PlainThenEnvelopeElseError ==
    parsed # NotParsed =>
        /\ json_loads(content) # JSONDecodeError => parsed = json_loads(content)
        /\ json_loads(content) = JSONDecodeError /\ Enveloped(content) =>
                parsed = json_loads(Between(content))
        /\ json_loads(content) = JSONDecodeError /\ ~Enveloped(content) =>
                parsed = JSONDecodeError

\* The first two cases of C16 on their own.
PlainAndEnvelopeParsed ==
    parsed # NotParsed =>
        /\ json_loads(content) # JSONDecodeError => parsed = json_loads(content)
        /\ json_loads(content) = JSONDecodeError /\ Enveloped(content) =>
                parsed = json_loads(Between(content))

(***************************************************************************)
(* Properties of request                                                   *)
(***************************************************************************)

\* C17: a request that fails on the status of a response has made every send
\* the retry limit allows, and a request that fails on parsing the body has
\* made no send after the one that produced the body.
C17_StatusRetriedParseNot ==
    /\ answer.cause = "HTTPStatusError" => sends = ClientRetries
    /\ answer.cause = "JSONDecodeError" => sends = received

\* The second half of C17 on its own, and what it rests on.
ParseFailureNotResent ==
    answer.cause = "JSONDecodeError" =>
        /\ sends = received
        /\ is_success(response)
        /\ parse_json(response.text) = JSONDecodeError

\* After request with sign=True the caller's dict, unless it was empty, holds
\* entries it did not hold before.
RequestChangesCallerMapping ==
    (rpc # "idle" /\ signing /\ passed # <<>>) => params # passed

(***************************************************************************)
(* Properties of the shutdown                                              *)
(***************************************************************************)

\* C20: once cleanup_clients is past its start an aclose() has been called on
\* every client that was open, and neither cleanup_clients nor
\* fastapi_lifespan is done before each of these calls has returned or raised.
C20_EveryOpenClientClosed ==
    /\ cleanup \in {"gather", "done"} =>
            /\ opened_clients = OpenAtShutdown
            /\ \A c \in OpenAtShutdown : clients[c].aclose # "none"
    /\ (cleanup = "done" \/ lifespan = "done") =>
            \A c \in OpenAtShutdown : clients[c].aclose \in {"returned", "raised"}

\* C20 witness: the shutdown is done, the first aclose() to end raised and
\* another one returned after it.
C20_Witness ==
    /\ lifespan = "done"
    /\ Len(closes) >= 2
    /\ closes[1].how = "raised"
    /\ closes[2].how = "returned"

(***************************************************************************)
(* Properties of Retry                                                     *)
(***************************************************************************)

\* C1: when every attempt raises a retryable error, a finished invocation has
\* made exactly `retries` attempts and has raised the error of the last
\* attempt; it has not returned normally.
C1_AllRetryableRaisesLast ==
    (Finished /\ ~Cancelled /\ \A k \in 1..Len(attempts) : Retryable(k)) =>
        /\ pc = "raised"
        /\ Len(attempts) = retries
        /\ outcome.type = "raise"
        /\ outcome.value = [kind |-> attempts[retries].kind, attempt |-> retries]

\* C2: when attempt k raises an error that is not in the allow-list, attempt k
\* is the last attempt, the wrapper has raised exactly that error, and it has
\* slept k-1 times (once before each earlier retry, never after attempt k).
C2_NonRetryablePropagates ==
    \A k \in 1..Len(attempts) :
        NonRetryable(k) =>
            /\ k = Len(attempts)
            /\ pc = "raised"
            /\ outcome = [type |-> "raise",
                          value |-> [kind |-> attempts[k].kind, attempt |-> k]]
            /\ sleeps = k - 1

\* C2 witness: a non-retryable error on a later attempt, after a retry.
C2_Witness ==
    /\ pc = "raised"
    /\ Len(attempts) >= 2
    /\ NonRetryable(Len(attempts))
    /\ sleeps = Len(attempts) - 1

\* C3: the delay is slept only between two attempts, so a finished invocation
\* (one that was not cancelled) that made k attempts has slept exactly k-1
\* times.
C3_SleepsOnlyBetweenAttempts ==
    (Finished /\ ~Cancelled) => sleeps = Len(attempts) - 1

\* C11: a cancellation delivered to async_wrapper during attempt k ends the
\* invocation: attempt k is the last, CancelledError is what the wrapper
\* raises and no delay is slept after it; a cancellation during a sleep ends
\* the invocation as well.
C11_CancellationPropagates ==
    /\ \A k \in 1..Len(attempts) :
        attempts[k].kind = "CancelledError" =>
            /\ k = Len(attempts)
            /\ pc = "raised"
            /\ outcome = [type |-> "raise",
                          value |-> [kind |-> "CancelledError", attempt |-> k]]
            /\ sleeps = k - 1
    /\ Cancelled => pc = "raised" /\ sleeps <= Len(attempts)

\* C11 witness: with the default allow-list, a cancellation during the second
\* attempt.
C11_Witness ==
    /\ exceptions = {}
    /\ Len(attempts) = 2
    /\ attempts[2].kind = "CancelledError"
    /\ pc = "raised"
    /\ sleeps = 1

\* C12: the wrapper in use is the one chosen from the wrapped function, and a
\* finished invocation made the attempts, slept the delays and ended the way
\* both sync_wrapper and async_wrapper do on the same outcomes of the attempts.
C12_SyncAsyncEquivalent ==
    /\ wrapper \in {"sync_wrapper", "async_wrapper"} => wrapper = Chosen(is_coroutine)
    /\ (Finished /\ ~Cancelled) =>
        LET run == Ended(Len(attempts), sleeps, outcome) IN
        /\ sync_wrapper(source, attempts, retries, exceptions) = run
        /\ async_wrapper(source, attempts, retries, exceptions) = run

\* C12 witness: an invocation that retried twice and then succeeded.
C12_Witness ==
    /\ pc = "returned"
    /\ Len(attempts) = 3
    /\ sleeps = 2
    /\ attempts[3].kind = "ok"

\* C21: the attempts of one invocation are strictly sequential.  While an
\* attempt is in progress every earlier attempt has ended with a retryable
\* error; an attempt starts only from the head of the loop, as the first one or
\* after the error of the one before was seen to be retryable and its delay
\* was slept; an attempt that returned is the last one, its value is what the
\* wrapper returned, and neither an attempt nor a sleep follows it in the
\* invocation.
C21_AttemptsStrictlySequential ==
    /\ [](/\ pc = "timed_func" =>
                /\ retried = Len(attempts)
                /\ \A k \in 1..Len(attempts) : Retryable(k)
          /\ \A k \in 1..Len(attempts) :
                attempts[k].kind = "ok" =>
                    /\ k = Len(attempts)
                    /\ pc = "returned"
                    /\ outcome = [type |-> "return",
                                  value |-> [type |-> "value", attempt |-> k]]
                    /\ sleeps = k - 1)
    /\ [][/\ (pc' = "timed_func" /\ pc # "timed_func") =>
                /\ pc = "for"
                /\ attempts' = attempts
                /\ attempts = <<>> \/ Retryable(Len(attempts))
                /\ sleeps = Len(attempts)
          /\ Len(attempts') > Len(attempts) =>
                /\ pc = "timed_func"
                /\ Len(attempts') = Len(attempts) + 1
          /\ pc = "returned" =>
                \/ attempts' = attempts /\ sleeps' = sleeps /\ pc' = pc
                \/ pc' = "for" /\ attempts' = <<>> /\ sleeps' = 0]_vars

\* C21 witness: the third attempt of an invocation is in progress.
C21_Witness ==
    /\ pc = "timed_func"
    /\ Len(attempts) = 2
    /\ retried = 2
    /\ sleeps = 2

\* C18: under a configuration with retries < 1 or delay < 0 no wrapper exists
\* and no attempt has run.
C18_InvalidConfigRejected ==
    (retries < 1 \/ delay < 0) =>
        /\ wrapper \in {"unwrapped", "AssertionError"}
        /\ pc = "idle"
        /\ attempts = <<>>
        /\ traces = 0

\* C18 witness: Retry applied with a negative delay failed its assertion.
C18_Witness ==
    /\ retries >= 1
    /\ delay < 0
    /\ wrapper = "AssertionError"

\* C19: every call of the timed function has emitted one trace record, so k
\* attempts emit k records, and what an attempt returned or raised is what
\* came out of TimeIt.
C19_OneTracePerAttempt ==
    /\ traces = Len(attempts)
    /\ pc = "returned" /\ outcome.value # None =>
            /\ attempts[Len(attempts)].kind = "ok"
            /\ outcome.value = [type |-> "value", attempt |-> Len(attempts)]
    /\ pc = "raised" /\ outcome.value.attempt = Len(attempts) =>
            outcome.value.kind = attempts[Len(attempts)].kind

\* C19 witness: two timed attempts, the second on the error path.
C19_Witness ==
    /\ pc = "raised"
    /\ Len(attempts) = 2
    /\ attempts[2].kind \in ExceptionKinds
    /\ traces = 2

(***************************************************************************)
(* Properties of rate_limit_depend                                         *)
(***************************************************************************)

\* C4: with RATE_LIMIT_MAX >= 1, the first RATE_LIMIT_MAX checks counted in a
\* key's window are allowed and every later check of the window is denied,
\* with a Retry-After of at most RATE_LIMIT_INTERVAL.
C4_FirstMaxAllowedThenDenied ==
    RATE_LIMIT_MAX >= 1 =>
        \A key \in Keys : \A j \in 1..Len(window[key]) :
            LET check == window[key][j] IN
            /\ j <= RATE_LIMIT_MAX =>
                /\ check.result # "denied"
                /\ check.result = "none" => j = 1
            /\ j > RATE_LIMIT_MAX =>
                /\ check.result # "allowed"
                /\ check.result = "denied" =>
                        check.limit_remain <= RATE_LIMIT_INTERVAL

\* C4 witness: a window of RATE_LIMIT_MAX + 1 finished checks, RATE_LIMIT_MAX >= 2,
\* the last one denied with the remaining seconds of the window.
C4_Witness ==
    /\ RATE_LIMIT_MAX >= 2
    /\ \A p \in Callers : req[p].pc \in AtRest
    /\ \E key \in Keys :
        /\ Len(window[key]) = RATE_LIMIT_MAX + 1
        /\ \A j \in 1..RATE_LIMIT_MAX : window[key][j].result = "allowed"
        /\ window[key][RATE_LIMIT_MAX + 1].result = "denied"
        /\ window[key][RATE_LIMIT_MAX + 1].limit_remain \in 1..RATE_LIMIT_INTERVAL

\* The callers that are about to set, or the checks that have set, the expiry
\* of a key in its current window.
ExpirySetters(key) ==
    Cardinality({p \in Callers : req[p].pc = "expire" /\ req[p].limit_key = key})
    + Cardinality({j \in 1..Len(window[key]) :
                        window[key][j].expire_set # NoExpire})

\* C5: the counter of a key equals the number of checks counted on it since it
\* was created, the j-th of them observed the count j, and exactly one of
\* them, the one that observed 1, sets the expiry.
C5_NoLostUpdateOneExpiry ==
    \A key \in Keys :
        /\ cache[key].count = Len(window[key])
        /\ \A j \in 1..Len(window[key]) : window[key][j].request_count = j
        /\ ExpirySetters(key) = IF Len(window[key]) >= 1 THEN 1 ELSE 0
        /\ \A j \in 2..Len(window[key]) : window[key][j].expire_set = NoExpire

\* C5 witness: every caller has been counted on the same cold key while the
\* first of them has not yet returned.
C5_Witness ==
    \E key \in Keys :
        /\ lapsed[key] = "never"
        /\ Len(window[key]) = NumCallers
        /\ cache[key].count = NumCallers
        /\ window[key][1].result = "none"
        /\ \E p \in Callers : req[p].pc = "expire"

\* C6: no check is counted on a key that is already counted and has no expiry
\* yet, that is, a second check of a window always finds the expiry set.
C6_NoCountedKeyWithoutExpiry ==
    \A key \in Keys :
        Len(window[key]) >= 2 => cache[key].ttl # NoExpire

\* C7: the first check counted after a key's window has elapsed observes the
\* count 1, is allowed whatever happened in the window before, and sets an
\* expiry of RATE_LIMIT_INTERVAL; while it is the only check the counter is 1.
C7_FreshWindowAfterLapse ==
    \A key \in Keys :
        (lapsed[key] # "never" /\ Len(window[key]) >= 1) =>
            LET first == window[key][1] IN
            /\ first.request_count = 1
            /\ first.result # "denied"
            /\ first.result = "allowed" => first.expire_set = RATE_LIMIT_INTERVAL
            /\ Len(window[key]) = 1 => cache[key].count = 1
            /\ cache[key].ttl \in {NoExpire} \cup 1..RATE_LIMIT_INTERVAL

\* C7 witness: after a window that held denials, one allowed check in a new
\* window that has the full interval left.
C7_Witness ==
    \E key \in Keys :
        /\ lapsed[key] = "after_denials"
        /\ Len(window[key]) = 1
        /\ window[key][1].result = "allowed"
        /\ cache[key] = [count |-> 1, ttl |-> RATE_LIMIT_INTERVAL]

\* C8: a check whose post-increment count exceeds RATE_LIMIT_MAX is never
\* allowed, also when that count is 1.
C8_DeniedWheneverOverMax ==
    \A key \in Keys : \A j \in 1..Len(window[key]) :
        window[key][j].request_count > RATE_LIMIT_MAX =>
            window[key][j].result # "allowed"

\* C9: the Retry-After value of every denial is a number of remaining seconds
\* of the window, in 0..RATE_LIMIT_INTERVAL.
C9_RetryAfterIsRemainingWindow ==
    \A p \in Callers :
        req[p].pc = "denied" => req[p].limit_remain \in 0..RATE_LIMIT_INTERVAL

(***************************************************************************)
(* Properties of the key derivation                                        *)
(***************************************************************************)

\* C10: a host that parses as an IP address gets the key of its address
\* family and packed bytes, and only a host that does not parse gets the
\* fallback key.
C10_IPHostsGetIPvKey ==
    derived # NoKey =>
        LET client_ip == ip_address(client_host) IN
        IF client_ip.raises = ""
        THEN derived = IPvKey(client_ip.version, HexBytes(client_ip.packed))
        ELSE derived = FallbackKey(client_host)

====
